---- MODULE Spec2Model ----
(***************************************************************************)
(* Model of the gtsdb drivers: the TSDB protocol clients written in Go     *)
(* (src/unnamed/part_001), JavaScript (src/unnamed/part_000), PHP          *)
(* (src/gtsdbDriver.php) and R (src/gtsdbDriver.r).                        *)
(*                                                                         *)
(* The specifications of this module:                                      *)
(*   SpecCodec  the pure part: a response line, as the server encodes it,  *)
(*              is decoded by readData and reduced by getLatestMeasurement *)
(*              and getAverageMeasurement of each driver.                  *)
(*   SpecConn   the life of the connection of the Go and of the JavaScript *)
(*              driver: connect, close, and the operations that write.     *)
(*   SpecRouter the traffic on an established connection: queries, the     *)
(*              subscription callback, the server and the chunks in flight.*)
(*   SpecQuery  the lines the facade operations put on the wire: the time  *)
(*              window and the downsampling of a query, the text of a      *)
(*              write.                                                     *)
(*   SpecPush   the 'data' listener of onSubscriptionData fed with chunks  *)
(*              of push lines.                                             *)
(*   SpecGo     the Go client writing and querying, before and after Close.*)
(*   SpecRouterFair  SpecRouter with a client that does not stall.         *)
(*   SpecForward  the forwarding server of src/main.go: one goroutine per  *)
(*              accepted connection, all writing through one Go client.    *)
(* Text is modelled as a sequence of one-character strings, so that        *)
(* splitting, trimming and number parsing are computed, not assumed.       *)
(***************************************************************************)
EXTENDS Integers, Sequences, FiniteSets, TLC

VARIABLES
  \* ---- SpecCodec ----
  cLine,      \* the response line on the wire (characters, "\n" included)
  cOp,        \* the facade operation applied to it ("none" before)
  cOut,       \* the operation's result
  \* ---- SpecConn, SpecRouter ----
  lang,       \* which driver runs: "go" or "js"
  sock,       \* the transport: "init", "connecting", "open", "ended", "refused"
  connected,  \* this.connected of the JavaScript client
  client,     \* whether a client object was handed out: "nil" or "made"
  connectRes, \* outcome of the last connect: "none", "pending", "ok", "ConnectionError"
  closeRes,   \* the last close: the transport at the call, and the outcome
  queued,     \* writes the runtime holds back while the socket is connecting
  wire,       \* the lines the server has been sent, in order
  srvNext,    \* how many lines of wire the server has processed
  srvSubs,    \* the keys the server pushes for
  nPush,      \* how many push lines the server has produced
  inbound,    \* chunks sent by the server and not yet read by the client
  waiting,    \* queries whose caller waits for inbound data, in order of issue
  flowing,    \* the JavaScript socket emits 'data' events
  subCb,      \* subscription callbacks registered with onSubscriptionData
  qState,     \* per query: "idle", "sent", "done", "failed"
  got,        \* per query: the lines its result was computed from
  pushed,     \* the lines handed to the subscription callback, in order
  lost,       \* the lines read off the transport and handed to nobody
  lastOp,     \* the last write-like operation: its kind, state at call, result
  \* ---- SpecQuery ----
  tNow,       \* the clock at the call, Unix seconds
  tArg,       \* the argument of the call: an interval, a duration, a value
  tOp,        \* the operation called ("none" before)
  tLine,      \* the line the operation wrote (characters, "\n" included)
  \* ---- SpecPush ----
  pSent,      \* the push lines the server has sent, in order
  pIn,        \* the chunks under way to the client, each a piece of text
  pReg,       \* a callback is registered with onSubscriptionData
  pCalls,     \* the invocations of the callback, in order
  pSplit,     \* some chunk so far ended in the middle of a line
  \* ---- SpecForward ----
  fPc,        \* per accepted connection: where its goroutine is
  fIn,        \* per accepted connection: the input lines not yet scanned
  fBuf,       \* per goroutine: the bytes of its line not yet written
  fLock,      \* the goroutine inside Write on the TSDB connection, 0 if none
  fWire,      \* the bytes written on the TSDB connection, in order
  fScanned,   \* how many input lines the scanners have returned
  fNow        \* the clock, Unix seconds

codecVars == <<cLine, cOp, cOut>>
connVars == <<lang, sock, connected, client, connectRes, closeRes, queued, wire,
              srvNext, srvSubs, nPush, inbound, waiting, flowing, subCb,
              qState, got, pushed, lost, lastOp>>
queryVars == <<tNow, tArg, tOp, tLine>>
pushVars == <<pSent, pIn, pReg, pCalls, pSplit>>
forwardVars == <<fPc, fIn, fBuf, fLock, fWire, fScanned, fNow>>
vars == <<codecVars, connVars, queryVars, pushVars, forwardVars>>

(***************************************************************************)
(* Bounds of the model.                                                    *)
(***************************************************************************)
MaxRecs == 3
MaxQueries == 2
MaxPush == 2
MaxWrites == 1
MaxSubscribes == 1
MaxCallbacks == 1
MaxPushLines == 3
MaxConns == 2
MaxLines == 2

(***************************************************************************)
(* Text: splitting, trimming, parsing.                                     *)
(***************************************************************************)
Digits == {"0", "1", "2", "3", "4", "5", "6", "7", "8", "9"}

DigitVal(c) ==
  CASE c = "0" -> 0 [] c = "1" -> 1 [] c = "2" -> 2 [] c = "3" -> 3
    [] c = "4" -> 4 [] c = "5" -> 5 [] c = "6" -> 6 [] c = "7" -> 7
    [] c = "8" -> 8 [] c = "9" -> 9

Space == {" ", "\n"}

\* strings.Split / String.prototype.split / explode: the pieces of s between
\* the occurrences of sep; the empty text gives ONE empty piece.
RECURSIVE Split(_, _)
Split(s, sep) ==
  IF \A i \in 1..Len(s) : s[i] # sep
  THEN <<s>>
  ELSE LET i == CHOOSE i \in 1..Len(s) :
                  s[i] = sep /\ \A j \in 1..(i - 1) : s[j] # sep
       IN <<SubSeq(s, 1, i - 1)>> \o Split(SubSeq(s, i + 1, Len(s)), sep)

\* strings.TrimSpace / trim(): leading and trailing white space removed.
RECURSIVE TrimSpace(_)
TrimSpace(s) ==
  IF s = <<>> THEN s
  ELSE IF s[1] \in Space THEN TrimSpace(Tail(s))
  ELSE IF s[Len(s)] \in Space THEN TrimSpace(SubSeq(s, 1, Len(s) - 1))
  ELSE s

IsNum(s) == Len(s) > 0 /\ \A i \in 1..Len(s) : s[i] \in Digits

RECURSIVE NumVal(_)
NumVal(s) == IF s = <<>> THEN 0 ELSE 10 * NumVal(SubSeq(s, 1, Len(s) - 1)) + DigitVal(s[Len(s)])

\* strconv.ParseInt / strconv.ParseFloat on the texts of this model (digits
\* only are numbers): <<"ok", n>> or <<"err", 0>>.
GoParse(s) == IF IsNum(s) THEN <<"ok", NumVal(s)>> ELSE <<"err", 0>>

\* The longest prefix of s made of digits.
RECURSIVE DigitPrefix(_)
DigitPrefix(s) ==
  IF s = <<>> \/ s[1] \notin Digits THEN <<>> ELSE <<s[1]>> \o DigitPrefix(Tail(s))

\* parseFloat / parseInt of JavaScript: the numeric prefix, NaN when there is
\* none or when the argument is undefined.
JsParse(s) ==
  IF DigitPrefix(s) = <<>> THEN <<"NaN", 0>> ELSE <<"num", NumVal(DigitPrefix(s))>>

\* floatval of PHP: the numeric prefix, 0 when there is none.
PhpFloatval(s) == NumVal(DigitPrefix(s))

\* strsplit of R: as Split, but the empty text gives no piece and a trailing
\* empty piece is not produced.
RSplit(s, sep) ==
  IF s = <<>> THEN <<>>
  ELSE LET p == Split(s, sep)
       IN IF p[Len(p)] = <<>> THEN SubSeq(p, 1, Len(p) - 1) ELSE p

\* as.numeric of R on one field: <<"num", n>> or NA.
RAsNumeric(s) ==
  IF IsNum(TrimSpace(s)) THEN <<"num", NumVal(TrimSpace(s))>> ELSE <<"NA", 0>>

\* A decimal number as text: digits, optionally a point and up to three more
\* digits (no text of this model has more), optionally "-" in front.
Unsigned(s) == IF s # <<>> /\ s[1] = "-" THEN Tail(s) ELSE s

IsDecimal(s) ==
  LET p == Split(Unsigned(s), ".")
  IN \/ Len(p) = 1 /\ IsNum(p[1])
     \/ /\ Len(p) = 2
        /\ p[1] = <<>> \/ IsNum(p[1])
        /\ p[2] = <<>> \/ IsNum(p[2])
        /\ p[1] # <<>> \/ p[2] # <<>>
        /\ Len(p[2]) <= 3

Pow10(n) == CASE n = 0 -> 1 [] n = 1 -> 10 [] n = 2 -> 100 [] n = 3 -> 1000

\* The value of a decimal number, in thousandths.
MilliVal(s) ==
  LET p == Split(Unsigned(s), ".")
      whole == 1000 * NumVal(p[1])
      frac == IF Len(p) = 2 THEN NumVal(p[2]) * Pow10(3 - Len(p[2])) ELSE 0
  IN IF s # <<>> /\ s[1] = "-" THEN -(whole + frac) ELSE whole + frac

\* strconv.ParseFloat: <<"ok", thousandths>> or <<"err", 0>>.
GoParseFloat(s) == IF IsDecimal(s) THEN <<"ok", MilliVal(s)>> ELSE <<"err", 0>>

\* parseFloat of JavaScript: the longest prefix that is a number, in
\* thousandths; NaN when there is none.
JsParseFloat(s) ==
  LET ns == {n \in 1..Len(s) : IsDecimal(SubSeq(s, 1, n))}
  IN IF ns = {} THEN <<"NaN", 0>>
     ELSE <<"num", MilliVal(SubSeq(s, 1, CHOOSE n \in ns : \A k \in ns : k <= n))>>

\* as.numeric of R on one field, in thousandths, or NA.
RAsNumericMilli(s) ==
  IF IsDecimal(TrimSpace(s)) THEN <<"num", MilliVal(TrimSpace(s))>> ELSE <<"NA", 0>>

(***************************************************************************)
(* The server's side of a query response: records joined by "|", closed by *)
(* a newline.                                                              *)
(***************************************************************************)
RECURSIVE Join(_, _)
Join(recs, sep) ==
  IF recs = <<>> THEN <<>>
  ELSE IF Len(recs) = 1 THEN recs[1]
  ELSE recs[1] \o <<sep>> \o Join(Tail(recs), sep)

EncodeResponse(recs) == Join(recs, "|") \o <<"\n">>

\* The records a server may answer with: well-formed ones and malformed ones.
RecordPool ==
  { <<"k", ",", "1", ",", "2">>,            \* k,1,2
    <<"k", ",", "2", ",", "4">>,            \* k,2,4
    <<"k", ",", "3", ",", "1", "2">>,       \* k,3,12
    <<"k", ",", "3", ",", "x">>,            \* k,3,x    value is no number
    <<"k", ",", "x", ",", "2">>,            \* k,x,2    timestamp is no number
    <<"k", ",", "1">>,                      \* k,1      two fields
    <<"k", ",", "4", ",", "3", ",", "1">>,  \* k,4,3,1  four fields
    <<>> }                                  \* the empty record

RECURSIVE SeqsUpTo(_, _)
SeqsUpTo(S, n) ==
  IF n = 0 THEN {<<>>}
  ELSE LET shorter == SeqsUpTo(S, n - 1)
       IN shorter \cup {Append(s, x) : s \in {t \in shorter : Len(t) = n - 1}, x \in S}

ResponseLines == {EncodeResponse(recs) : recs \in SeqsUpTo(RecordPool, MaxRecs)}

(***************************************************************************)
(* readData: what each driver makes of the response line.                  *)
(***************************************************************************)
\* Go: strings.Split(strings.TrimSpace(response), "|")
GoReadDataDecode(line) == Split(TrimSpace(line), "|")

\* JavaScript: data.toString().trim().split('|')
JsReadDataDecode(line) == Split(TrimSpace(line), "|")

\* PHP: explode("|", trim($response))
PhpReadDataDecode(line) == Split(TrimSpace(line), "|")

\* R: readLines(n = 1) gives the line without its newline; strsplit on "|".
RReadLine(line) ==
  IF line # <<>> /\ line[Len(line)] = "\n" THEN SubSeq(line, 1, Len(line) - 1) ELSE line

RReadDataDecode(line) == RSplit(RReadLine(line), "|")

NoResult == [err |-> "none", value |-> <<"num", 0>>, ts |-> <<"num", 0>>,
             sum |-> <<"num", 0>>, count |-> 0, history |-> <<>>]

Failure(e) == [NoResult EXCEPT !.err = e]

(***************************************************************************)
(* getLatestMeasurement                                                    *)
(***************************************************************************)
\* Go: the last element of data, which must have 3 fields that parse.
GoLatest(data) ==
  IF Len(data) = 0 THEN Failure("NoData")
  ELSE LET parts == Split(data[Len(data)], ",")
       IN IF Len(parts) # 3 THEN Failure("InvalidFormat")
          ELSE IF GoParse(parts[2])[1] = "err" THEN Failure("ParseError")
          ELSE IF GoParse(parts[3])[1] = "err" THEN Failure("ParseError")
          ELSE [NoResult EXCEPT !.err = "nil",
                                !.value = <<"num", GoParse(parts[3])[2]>>,
                                !.ts = <<"num", GoParse(parts[2])[2]>>]

\* JavaScript: field i of parts, undefined (here the empty text, which parses
\* to NaN like undefined does) when parts is shorter.
JsField(parts, i) == IF i <= Len(parts) THEN parts[i] ELSE <<>>

\* JavaScript: the last element of data, its fields parsed without any check.
JsLatest(data) ==
  IF Len(data) = 0 THEN Failure("NoData")
  ELSE LET latestMeasurement == Split(data[Len(data)], ",")
       IN [NoResult EXCEPT !.err = "nil",
                           !.value = JsParse(JsField(latestMeasurement, 3)),
                           !.ts = JsParse(JsField(latestMeasurement, 2))]

(***************************************************************************)
(* getAverageMeasurement                                                   *)
(***************************************************************************)
\* Go: the loop over data; a record without 3 fields or whose value does not
\* parse is passed over.  Gives <<sum, count>>.
RECURSIVE GoAvgLoop(_, _, _, _)
GoAvgLoop(data, i, sum, count) ==
  IF i > Len(data) THEN <<sum, count>>
  ELSE LET parts == Split(data[i], ",")
       IN IF Len(parts) # 3 THEN GoAvgLoop(data, i + 1, sum, count)
          ELSE IF GoParse(parts[3])[1] = "err" THEN GoAvgLoop(data, i + 1, sum, count)
          ELSE GoAvgLoop(data, i + 1, sum + GoParse(parts[3])[2], count + 1)

\* The result sum / count is kept as the pair (sum, count).
GoAverage(data) ==
  IF Len(data) = 0 THEN Failure("NoData")
  ELSE LET r == GoAvgLoop(data, 1, 0, 0)
       IN IF r[2] = 0 THEN Failure("NoValid")
          ELSE [NoResult EXCEPT !.err = "nil", !.sum = <<"num", r[1]>>, !.count = r[2]]

\* PHP: the loop over data; a record with 3 fields counts, its value is
\* floatval of the third field.
RECURSIVE PhpAvgLoop(_, _, _, _)
PhpAvgLoop(data, i, sum, count) ==
  IF i > Len(data) THEN <<sum, count>>
  ELSE LET parts == Split(data[i], ",")
       IN IF Len(parts) = 3
          THEN PhpAvgLoop(data, i + 1, sum + PhpFloatval(parts[3]), count + 1)
          ELSE PhpAvgLoop(data, i + 1, sum, count)

\* PHP: empty($data) is true of an array without elements only.
PhpAverage(data) ==
  IF Len(data) = 0 THEN Failure("NoData")
  ELSE LET r == PhpAvgLoop(data, 1, 0, 0)
       IN IF r[2] = 0 THEN Failure("NoValid")
          ELSE [NoResult EXCEPT !.err = "nil", !.sum = <<"num", r[1]>>, !.count = r[2]]

\* R: sapply(strsplit(data, ","), function(x) as.numeric(x[3])): the third
\* field of every record, NA when there is none or it is no number.
RValueOf(rec) ==
  LET x == RSplit(rec, ",")
  IN IF Len(x) >= 3 THEN RAsNumeric(x[3]) ELSE <<"NA", 0>>

\* R: mean(values, na.rm = TRUE) as <<sum, count>> over the values that are
\* not NA.
RECURSIVE RMeanLoop(_, _, _, _)
RMeanLoop(data, i, sum, count) ==
  IF i > Len(data) THEN <<sum, count>>
  ELSE IF RValueOf(data[i])[1] = "NA" THEN RMeanLoop(data, i + 1, sum, count)
  ELSE RMeanLoop(data, i + 1, sum + RValueOf(data[i])[2], count + 1)

\* R: stop() on length 0; the mean of no value is NaN, not an error.
RAverage(data) ==
  IF Len(data) = 0 THEN Failure("NoData")
  ELSE LET r == RMeanLoop(data, 1, 0, 0)
       IN IF r[2] = 0 THEN [NoResult EXCEPT !.err = "nil", !.sum = <<"NaN", 0>>]
          ELSE [NoResult EXCEPT !.err = "nil", !.sum = <<"num", r[1]>>, !.count = r[2]]

(***************************************************************************)
(* getMeasurementHistory: the entries made of the records of the response. *)
(* An entry is a timestamp, in seconds, and a value, in thousandths.       *)
(***************************************************************************)
\* Go: the loop over data; a record without 3 fields, or whose timestamp or
\* value does not parse, is passed over.
RECURSIVE GoHistoryLoop(_, _, _)
GoHistoryLoop(data, i, history) ==
  IF i > Len(data) THEN history
  ELSE LET parts == Split(data[i], ",")
       IN IF Len(parts) # 3 THEN GoHistoryLoop(data, i + 1, history)
          ELSE IF GoParse(parts[2])[1] = "err" THEN GoHistoryLoop(data, i + 1, history)
          ELSE IF GoParseFloat(parts[3])[1] = "err" THEN GoHistoryLoop(data, i + 1, history)
          ELSE GoHistoryLoop(data, i + 1,
                 Append(history, [ts |-> <<"num", GoParse(parts[2])[2]>>,
                                  value |-> <<"num", GoParseFloat(parts[3])[2]>>]))

GoHistory(data) == [NoResult EXCEPT !.err = "nil", !.history = GoHistoryLoop(data, 1, <<>>)]

\* JavaScript: data.map(...): one entry for every element of data, its
\* fields parsed without any check.
JsHistory(data) ==
  [NoResult EXCEPT
     !.err = "nil",
     !.history = [i \in 1..Len(data) |->
                    LET parts == Split(data[i], ",")
                    IN [ts |-> JsParse(JsField(parts, 2)),
                        value |-> JsParseFloat(JsField(parts, 3))]]]

\* R: x[i] of a character vector, NA (here the empty text, which as.numeric
\* turns into NA) beyond its length.
RField(x, i) == IF i <= Len(x) THEN x[i] ELSE <<>>

\* R: lapply over strsplit(data, ","): one row for every element of data.
RHistory(data) ==
  [NoResult EXCEPT
     !.err = "nil",
     !.history = [i \in 1..Len(data) |->
                    LET x == RSplit(data[i], ",")
                    IN [ts |-> RAsNumeric(RField(x, 2)),
                        value |-> RAsNumericMilli(RField(x, 3))]]]

(***************************************************************************)
(* SpecCodec: one response line, one facade operation applied to it.       *)
(***************************************************************************)
NoOp == [op |-> "none", pre |-> "none", res |-> "none"]

NoClose == [pre |-> "none", res |-> "none"]

ConnIdle ==
  /\ lang = "go"
  /\ sock = "init"
  /\ connected = FALSE
  /\ client = "nil"
  /\ connectRes = "none"
  /\ closeRes = NoClose
  /\ queued = <<>>
  /\ wire = <<>>
  /\ srvNext = 0
  /\ srvSubs = {}
  /\ nPush = 0
  /\ inbound = <<>>
  /\ waiting = <<>>
  /\ flowing = FALSE
  /\ subCb = 0
  /\ qState = [q \in 1..MaxQueries |-> "idle"]
  /\ got = [q \in 1..MaxQueries |-> <<>>]
  /\ pushed = <<>>
  /\ lost = <<>>
  /\ lastOp = NoOp

QueryIdle ==
  /\ tNow = 0
  /\ tArg = 0
  /\ tOp = "none"
  /\ tLine = <<>>

PushIdle ==
  /\ pSent = <<>>
  /\ pIn = <<>>
  /\ pReg = FALSE
  /\ pCalls = <<>>
  /\ pSplit = FALSE

\* The connections the forwarding server accepts.
Conns == 1..MaxConns

ForwardIdle ==
  /\ fPc = [c \in Conns |-> "none"]
  /\ fIn = [c \in Conns |-> 0]
  /\ fBuf = [c \in Conns |-> <<>>]
  /\ fLock = 0
  /\ fWire = <<>>
  /\ fScanned = 0
  /\ fNow = 7

CodecInit ==
  /\ cLine \in ResponseLines
  /\ cOp = "none"
  /\ cOut = NoResult
  /\ ConnIdle
  /\ QueryIdle
  /\ PushIdle
  /\ ForwardIdle

GoGetLatestMeasurement ==
  /\ cOp = "none"
  /\ cOp' = "GoLatest"
  /\ cOut' = GoLatest(GoReadDataDecode(cLine))
  /\ UNCHANGED <<cLine, connVars, queryVars, pushVars, forwardVars>>

JsGetLatestMeasurement ==
  /\ cOp = "none"
  /\ cOp' = "JsLatest"
  /\ cOut' = JsLatest(JsReadDataDecode(cLine))
  /\ UNCHANGED <<cLine, connVars, queryVars, pushVars, forwardVars>>

GoGetAverageMeasurement ==
  /\ cOp = "none"
  /\ cOp' = "GoAverage"
  /\ cOut' = GoAverage(GoReadDataDecode(cLine))
  /\ UNCHANGED <<cLine, connVars, queryVars, pushVars, forwardVars>>

PhpGetAverageMeasurement ==
  /\ cOp = "none"
  /\ cOp' = "PhpAverage"
  /\ cOut' = PhpAverage(PhpReadDataDecode(cLine))
  /\ UNCHANGED <<cLine, connVars, queryVars, pushVars, forwardVars>>

RGetAverageMeasurement ==
  /\ cOp = "none"
  /\ cOp' = "RAverage"
  /\ cOut' = RAverage(RReadDataDecode(cLine))
  /\ UNCHANGED <<cLine, connVars, queryVars, pushVars, forwardVars>>

GoGetMeasurementHistory ==
  /\ cOp = "none"
  /\ cOp' = "GoHistory"
  /\ cOut' = GoHistory(GoReadDataDecode(cLine))
  /\ UNCHANGED <<cLine, connVars, queryVars, pushVars, forwardVars>>

JsGetMeasurementHistory ==
  /\ cOp = "none"
  /\ cOp' = "JsHistory"
  /\ cOut' = JsHistory(JsReadDataDecode(cLine))
  /\ UNCHANGED <<cLine, connVars, queryVars, pushVars, forwardVars>>

RGetMeasurementHistory ==
  /\ cOp = "none"
  /\ cOp' = "RHistory"
  /\ cOut' = RHistory(RReadDataDecode(cLine))
  /\ UNCHANGED <<cLine, connVars, queryVars, pushVars, forwardVars>>

CodecNext ==
  \/ GoGetMeasurementHistory
  \/ JsGetMeasurementHistory
  \/ RGetMeasurementHistory
  \/ GoGetLatestMeasurement
  \/ JsGetLatestMeasurement
  \/ GoGetAverageMeasurement
  \/ PhpGetAverageMeasurement
  \/ RGetAverageMeasurement

SpecCodec == CodecInit /\ [][CodecNext]_vars

(***************************************************************************)
(* What the protocol says of a response line, independently of any driver. *)
(***************************************************************************)
\* The server answered with no record at all.
RespEmpty(line) == TrimSpace(line) = <<>>

\* The records of the line, in response order.
SentRecords(line) == IF RespEmpty(line) THEN <<>> ELSE Split(TrimSpace(line), "|")

\* key,timestamp,value with a value that is a number.
HasValue(rec) ==
  LET f == Split(rec, ",") IN Len(f) = 3 /\ IsNum(f[3])

\* key,timestamp,value with a timestamp and a value that are numbers.
WellFormed(rec) ==
  LET f == Split(rec, ",") IN Len(f) = 3 /\ IsNum(f[2]) /\ IsNum(f[3])

ValueOf(rec) == NumVal(Split(rec, ",")[3])
TimeOf(rec) == NumVal(Split(rec, ",")[2])

RECURSIVE SumValues(_)
SumValues(recs) == IF recs = <<>> THEN 0 ELSE ValueOf(Head(recs)) + SumValues(Tail(recs))

LatestOps == {"GoLatest", "JsLatest"}

\* C7: getLatestMeasurement fails with NoDataError whenever the response set
\* is empty (the server answered with an empty line), and returns no default
\* value then.
C7_LatestEmptyIsNoData ==
  (cOp \in LatestOps /\ RespEmpty(cLine)) => cOut.err = "NoData"

\* C8: getAverageMeasurement fails with NoDataError exactly when the response
\* set is empty, and with NoValidMeasurementsError exactly when there is at
\* least one record and every record is malformed.
C8_AverageErrorsDistinct ==
  cOp \in {"GoAverage", "PhpAverage"} =>
    /\ cOut.err = "NoData" <=> RespEmpty(cLine)
    /\ cOut.err = "NoValid" <=>
         (~RespEmpty(cLine) /\ SelectSeq(SentRecords(cLine), HasValue) = <<>>)

\* C9: for every response with at least one well-formed record,
\* getAverageMeasurement returns the sum of the values of the well-formed
\* records divided by their number; malformed records change neither.
C9_AverageIsMeanOfValid ==
  LET valid == SelectSeq(SentRecords(cLine), HasValue)
  IN (cOp \in {"GoAverage", "RAverage"} /\ valid # <<>>) =>
       /\ cOut.err = "nil"
       /\ cOut.sum = <<"num", SumValues(valid)>>
       /\ cOut.count = Len(valid)

\* The Go driver alone does compute the mean of the valid records.
GoAverageIsMeanOfValid ==
  LET valid == SelectSeq(SentRecords(cLine), HasValue)
  IN (cOp = "GoAverage" /\ valid # <<>>) =>
       /\ cOut.err = "nil"
       /\ cOut.sum = <<"num", SumValues(valid)>>
       /\ cOut.count = Len(valid)

\* C10: for any response with at least one well-formed record,
\* getLatestMeasurement returns the value and timestamp of the last
\* well-formed record, and a malformed record does not make it fail.
C10_LatestIsLastWellFormed ==
  LET valid == SelectSeq(SentRecords(cLine), WellFormed)
  IN (cOp \in LatestOps /\ valid # <<>>) =>
       /\ cOut.err = "nil"
       /\ cOut.value = <<"num", ValueOf(valid[Len(valid)])>>
       /\ cOut.ts = <<"num", TimeOf(valid[Len(valid)])>>

\* The entries the protocol defines for a sequence of records: one for each
\* well-formed record, in the order of the records.
RECURSIVE HistoryOf(_)
HistoryOf(recs) ==
  IF recs = <<>> THEN <<>>
  ELSE IF WellFormed(Head(recs))
       THEN <<[ts |-> <<"num", TimeOf(Head(recs))>>,
               value |-> <<"num", 1000 * ValueOf(Head(recs))>>]>> \o HistoryOf(Tail(recs))
       ELSE HistoryOf(Tail(recs))

\* C12: getMeasurementHistory returns exactly the well-formed records of the
\* response, in the order the server sent them, one entry for each; a
\* malformed record is dropped without an error and without a placeholder
\* entry, and no well-formed record is dropped, duplicated or moved.
C12_HistoryIsWellFormedInOrder ==
  cOp \in {"GoHistory", "JsHistory", "RHistory"} =>
    /\ cOut.err = "nil"
    /\ cOut.history = HistoryOf(SentRecords(cLine))

\* The Go driver alone does return the well-formed records in order.
GoHistoryIsWellFormedInOrder ==
  cOp = "GoHistory" =>
    /\ cOut.err = "nil"
    /\ cOut.history = HistoryOf(SentRecords(cLine))

(***************************************************************************)
(* Spec: the connection of one client, the Go or the JavaScript driver,    *)
(* and the server at the other end.                                        *)
(***************************************************************************)
SubKeys == {"a"}
QueryKey == "b"
Queries == 1..MaxQueries

\* The state of the connection manager, as the driver keeps it: the
\* JavaScript client in this.connected, the Go client by holding a net.Conn
\* that it has not closed.
ConnState ==
  IF lang = "js"
  THEN IF connected THEN "Connected"
       ELSE IF sock = "connecting" THEN "Connecting" ELSE "Disconnected"
  ELSE IF client = "made" /\ sock = "open" THEN "Connected" ELSE "Disconnected"

\* A line from client to server; pre is the connection state at the call
\* that produced it.
Line(kind, key, q) == [kind |-> kind, key |-> key, q |-> q, pre |-> ConnState]

\* A line from server to client.
Resp(q) == [kind |-> "resp", key |-> QueryKey, q |-> q, n |-> 0]
Push(k, n) == [kind |-> "push", key |-> k, q |-> 0, n |-> n]

CountKind(lines, kind) == Cardinality({i \in 1..Len(lines) : lines[i].kind = kind})

Issued(kind) == CountKind(wire, kind) + CountKind(queued, kind)

\* What the transport does with a write: net.Conn.Write and socket.write put
\* the bytes on an open connection; socket.write holds them back while the
\* socket is connecting; otherwise the write fails.
WriteOutcome ==
  IF sock = "open" THEN "ok"
  ELSE IF sock = "connecting" THEN "pending"
  ELSE "IOError"

Init ==
  /\ cLine = <<>>
  /\ cOp = "none"
  /\ cOut = NoResult
  /\ lang \in {"go", "js"}
  /\ client = IF lang = "js" THEN "made" ELSE "nil"
  /\ sock = "init"
  /\ connected = FALSE
  /\ connectRes = "none"
  /\ closeRes = NoClose
  /\ queued = <<>>
  /\ wire = <<>>
  /\ srvNext = 0
  /\ srvSubs = {}
  /\ nPush = 0
  /\ inbound = <<>>
  /\ waiting = <<>>
  /\ flowing = FALSE
  /\ subCb = 0
  /\ qState = [q \in Queries |-> "idle"]
  /\ got = [q \in Queries |-> <<>>]
  /\ pushed = <<>>
  /\ lost = <<>>
  /\ lastOp = NoOp
  /\ QueryIdle
  /\ PushIdle
  /\ ForwardIdle

(***************************************************************************)
(* connect and close                                                       *)
(***************************************************************************)
\* JavaScript connect(): socket.connect is started; this.connected is not
\* touched before the callback.
JsConnectEager ==
  /\ lang = "js"
  /\ sock = "init"
  /\ sock' = "connecting"
  /\ connected' = TRUE
  /\ connectRes' = "pending"
  /\ UNCHANGED <<codecVars, queryVars, pushVars, forwardVars, lang, client, closeRes, queued, wire, srvNext, srvSubs,
                 nPush, inbound, waiting, flowing, subCb, qState, got, pushed,
                 lost, lastOp>>

JsConnect ==
  /\ lang = "js"
  /\ sock = "init"
  /\ sock' = "connecting"
  /\ connectRes' = "pending"
  /\ UNCHANGED <<codecVars, queryVars, pushVars, forwardVars, lang, connected, client, closeRes, queued, wire,
                 srvNext, srvSubs, nPush, inbound, waiting, flowing, subCb,
                 qState, got, pushed, lost, lastOp>>

\* The connect callback: the transport is established; connected = true and
\* the promise resolves.  The writes held back meanwhile go out.
JsOnConnect ==
  /\ lang = "js"
  /\ sock = "connecting"
  /\ sock' = "open"
  /\ connected' = TRUE
  /\ connectRes' = "ok"
  /\ wire' = wire \o queued
  /\ queued' = <<>>
  /\ lastOp' = IF lastOp.res = "pending" THEN [lastOp EXCEPT !.res = "ok"] ELSE lastOp
  /\ UNCHANGED <<codecVars, queryVars, pushVars, forwardVars, lang, client, closeRes, srvNext, srvSubs, nPush,
                 inbound, waiting, flowing, subCb, qState, got, pushed, lost>>

\* The 'error' event while connecting: the promise is rejected; the writes
\* held back fail, and with them the queries that made them.
JsOnConnectError ==
  /\ lang = "js"
  /\ sock = "connecting"
  /\ sock' = "refused"
  /\ connectRes' = "ConnectionError"
  /\ queued' = <<>>
  /\ qState' = [q \in Queries |->
                  IF \E i \in 1..Len(queued) : queued[i].kind = "query" /\ queued[i].q = q
                  THEN "failed" ELSE qState[q]]
  /\ lastOp' = IF lastOp.res = "pending" THEN [lastOp EXCEPT !.res = "IOError"] ELSE lastOp
  /\ UNCHANGED <<codecVars, queryVars, pushVars, forwardVars, lang, connected, client, closeRes, wire, srvNext,
                 srvSubs, nPush, inbound, waiting, flowing, subCb, got, pushed, lost>>

\* JavaScript close(): socket.end(callback), on a socket that was connected.
\* (What end() does on a socket that never connected is left out.)
JsClose ==
  /\ lang = "js"
  /\ sock \in {"open", "ended"}
  /\ closeRes.res # "pending"
  /\ closeRes' = [pre |-> sock, res |-> "pending"]
  /\ sock' = "ended"
  /\ UNCHANGED <<codecVars, queryVars, pushVars, forwardVars, lang, connected, client, connectRes, queued, wire,
                 srvNext, srvSubs, nPush, inbound, waiting, flowing, subCb,
                 qState, got, pushed, lost, lastOp>>

\* The callback of socket.end: connected = false and the promise resolves,
\* whatever the callback is passed.
JsOnEnd ==
  /\ lang = "js"
  /\ closeRes.res = "pending"
  /\ connected' = FALSE
  /\ closeRes' = [closeRes EXCEPT !.res = "ok"]
  /\ UNCHANGED <<codecVars, queryVars, pushVars, forwardVars, lang, sock, client, connectRes, queued, wire, srvNext,
                 srvSubs, nPush, inbound, waiting, flowing, subCb, qState, got,
                 pushed, lost, lastOp>>

\* Go NewTSDBClient: net.Dial succeeds and the client is returned, or fails
\* and (nil, err) is returned.
GoDial ==
  /\ lang = "go"
  /\ client = "nil"
  /\ sock = "init"
  /\ \E ok \in BOOLEAN :
       IF ok
       THEN /\ sock' = "open"
            /\ client' = "made"
            /\ connectRes' = "ok"
       ELSE /\ sock' = "refused"
            /\ client' = "nil"
            /\ connectRes' = "ConnectionError"
  /\ UNCHANGED <<codecVars, queryVars, pushVars, forwardVars, lang, connected, closeRes, queued, wire, srvNext,
                 srvSubs, nPush, inbound, waiting, flowing, subCb, qState, got,
                 pushed, lost, lastOp>>

\* Go Close: returns what net.Conn.Close returns, which is an error ("use of
\* closed network connection") on a connection that is closed already.
GoClose ==
  /\ lang = "go"
  /\ client = "made"
  /\ closeRes' = [pre |-> sock, res |-> IF sock = "open" THEN "ok" ELSE "error"]
  /\ sock' = "ended"
  /\ UNCHANGED <<codecVars, queryVars, pushVars, forwardVars, lang, connected, client, connectRes, queued, wire,
                 srvNext, srvSubs, nPush, inbound, waiting, flowing, subCb,
                 qState, got, pushed, lost, lastOp>>

(***************************************************************************)
(* Writes: writeData / recordMeasurement, subscribe, unsubscribe.  None of *)
(* them looks at the connection state before it writes.                    *)
(***************************************************************************)
\* One line handed to the transport by operation op.
SendLine(op, line) ==
  /\ client = "made"
  /\ wire' = IF WriteOutcome = "ok" THEN Append(wire, line) ELSE wire
  /\ queued' = IF WriteOutcome = "pending" THEN Append(queued, line) ELSE queued
  /\ lastOp' = [op |-> op, pre |-> ConnState, res |-> WriteOutcome]

\* A WriteData that writes its line a second time.
WriteDataTwice ==
  /\ Issued("write") < MaxWrites
  /\ client = "made"
  /\ LET line == Line("write", QueryKey, 0)
     IN wire' = IF WriteOutcome = "ok" THEN wire \o <<line, line>> ELSE wire
  /\ lastOp' = [op |-> "write", pre |-> ConnState, res |-> WriteOutcome]
  /\ UNCHANGED <<codecVars, queryVars, pushVars, forwardVars, lang, sock, connected, client, connectRes, closeRes,
                 queued, srvNext, srvSubs, nPush, inbound, waiting, flowing, subCb,
                 qState, got, pushed, lost>>

WriteData ==
  /\ Issued("write") < MaxWrites
  /\ SendLine("write", Line("write", QueryKey, 0))
  /\ UNCHANGED <<codecVars, queryVars, pushVars, forwardVars, lang, sock, connected, client, connectRes, closeRes,
                 srvNext, srvSubs, nPush, inbound, waiting, flowing, subCb,
                 qState, got, pushed, lost>>

Subscribe ==
  /\ Issued("subscribe") < MaxSubscribes
  /\ \E k \in SubKeys : SendLine("subscribe", Line("subscribe", k, 0))
  /\ UNCHANGED <<codecVars, queryVars, pushVars, forwardVars, lang, sock, connected, client, connectRes, closeRes,
                 srvNext, srvSubs, nPush, inbound, waiting, flowing, subCb,
                 qState, got, pushed, lost>>

Unsubscribe ==
  /\ Issued("unsubscribe") < MaxSubscribes
  /\ \E k \in SubKeys : SendLine("unsubscribe", Line("unsubscribe", k, 0))
  /\ UNCHANGED <<codecVars, queryVars, pushVars, forwardVars, lang, sock, connected, client, connectRes, closeRes,
                 srvNext, srvSubs, nPush, inbound, waiting, flowing, subCb,
                 qState, got, pushed, lost>>

(***************************************************************************)
(* Queries: readData / ReadData, and the operations built on it.           *)
(***************************************************************************)
\* The next query to be issued: queries are numbered in order of issue.
NextQuery(q) == qState[q] = "idle" /\ \A p \in 1..(q - 1) : qState[p] # "idle"

\* JavaScript readData: the request is written and, in the same turn, a
\* once('data') listener is registered, whatever becomes of the write.
JsReadData ==
  /\ lang = "js"
  /\ \E q \in Queries :
       /\ NextQuery(q)
       /\ SendLine("query", Line("query", QueryKey, q))
       /\ qState' = [qState EXCEPT ![q] = IF WriteOutcome = "IOError" THEN "failed" ELSE "sent"]
       /\ waiting' = Append(waiting, q)
  /\ flowing' = TRUE
  /\ UNCHANGED <<codecVars, queryVars, pushVars, forwardVars, lang, sock, connected, client, connectRes, closeRes,
                 srvNext, srvSubs, nPush, inbound, subCb, got, pushed, lost>>

\* Go ReadData, first half: the request is written; on an error the call
\* returns it, otherwise the caller goes on to read.
GoReadDataSend ==
  /\ lang = "go"
  /\ \E q \in Queries :
       /\ NextQuery(q)
       /\ SendLine("query", Line("query", QueryKey, q))
       /\ qState' = [qState EXCEPT ![q] = IF WriteOutcome = "ok" THEN "sent" ELSE "failed"]
       /\ waiting' = IF WriteOutcome = "ok" THEN Append(waiting, q) ELSE waiting
  /\ UNCHANGED <<codecVars, queryVars, pushVars, forwardVars, lang, sock, connected, client, connectRes, closeRes,
                 srvNext, srvSubs, nPush, inbound, flowing, subCb, got, pushed, lost>>

Without(seq, q) == SelectSeq(seq, LAMBDA x : x # q)

\* Go ReadData, second half: a fresh bufio.Reader reads what the connection
\* has, ReadString returns up to the first newline, and the reader is
\* dropped with whatever else it read.
GoReadDataReceive ==
  /\ lang = "go"
  /\ sock = "open"
  /\ inbound # <<>>
  /\ \E q \in Queries :
       /\ \E i \in 1..Len(waiting) : waiting[i] = q
       /\ got' = [got EXCEPT ![q] = <<Head(inbound)[1]>>]
       /\ qState' = [qState EXCEPT ![q] = "done"]
       /\ waiting' = Without(waiting, q)
  /\ lost' = lost \o Tail(Head(inbound))
  /\ inbound' = Tail(inbound)
  /\ UNCHANGED <<codecVars, queryVars, pushVars, forwardVars, lang, sock, connected, client, connectRes, closeRes,
                 queued, wire, srvNext, srvSubs, nPush, flowing, subCb, pushed, lastOp>>

\* Go ReadData, second half, on a connection closed meanwhile: ReadString
\* returns an error, and so does ReadData.
GoReadDataError ==
  /\ lang = "go"
  /\ sock # "open"
  /\ \E q \in Queries :
       /\ \E i \in 1..Len(waiting) : waiting[i] = q
       /\ qState' = [qState EXCEPT ![q] = "failed"]
       /\ waiting' = Without(waiting, q)
  /\ UNCHANGED <<codecVars, queryVars, pushVars, forwardVars, lang, sock, connected, client, connectRes, closeRes,
                 queued, wire, srvNext, srvSubs, nPush, inbound, flowing, subCb,
                 got, pushed, lost, lastOp>>

\* JavaScript onSubscriptionData: one more on('data') listener.
JsOnSubscriptionData ==
  /\ lang = "js"
  /\ subCb < MaxCallbacks
  /\ subCb' = subCb + 1
  /\ flowing' = TRUE
  /\ UNCHANGED <<codecVars, queryVars, pushVars, forwardVars, lang, sock, connected, client, connectRes, closeRes,
                 queued, wire, srvNext, srvSubs, nPush, inbound, waiting, qState,
                 got, pushed, lost, lastOp>>

RECURSIVE Repeat(_, _)
Repeat(seq, n) == IF n = 0 THEN <<>> ELSE seq \o Repeat(seq, n - 1)

\* JavaScript, a 'data' event: the chunk is passed to every listener there
\* is.  Each once('data') listener of readData resolves its promise with it
\* and is removed; each listener of onSubscriptionData calls the callback
\* once per line of it.
JsOnData ==
  /\ lang = "js"
  /\ flowing
  /\ sock \in {"open", "ended"}
  /\ inbound # <<>>
  /\ LET chunk == Head(inbound)
         listening(q) == \E i \in 1..Len(waiting) : waiting[i] = q
     IN /\ got' = [q \in Queries |->
                     IF listening(q) /\ qState[q] = "sent" THEN chunk ELSE got[q]]
        /\ qState' = [q \in Queries |->
                     IF listening(q) /\ qState[q] = "sent" THEN "done" ELSE qState[q]]
        /\ pushed' = pushed \o Repeat(chunk, subCb)
        /\ lost' = IF waiting = <<>> /\ subCb = 0 THEN lost \o chunk ELSE lost
  /\ waiting' = <<>>
  /\ inbound' = Tail(inbound)
  /\ UNCHANGED <<codecVars, queryVars, pushVars, forwardVars, lang, sock, connected, client, connectRes, closeRes,
                 queued, wire, srvNext, srvSubs, nPush, flowing, subCb, lastOp>>

(***************************************************************************)
(* The server and the network: one response line per query line, push      *)
(* lines for the subscribed keys; a line travels in a chunk of its own or  *)
(* in the chunk of the line before it.                                     *)
(***************************************************************************)
Emit(line) ==
  \E merge \in BOOLEAN :
    inbound' = IF merge /\ inbound # <<>>
               THEN [inbound EXCEPT ![Len(inbound)] = Append(@, line)]
               ELSE Append(inbound, <<line>>)

ServerProcess ==
  /\ srvNext < Len(wire)
  /\ srvNext' = srvNext + 1
  /\ LET line == wire[srvNext + 1]
     IN /\ srvSubs' = IF line.kind = "subscribe" THEN srvSubs \cup {line.key}
                      ELSE IF line.kind = "unsubscribe" THEN srvSubs \ {line.key}
                      ELSE srvSubs
        /\ IF line.kind = "query" THEN Emit(Resp(line.q)) ELSE inbound' = inbound
  /\ UNCHANGED <<codecVars, queryVars, pushVars, forwardVars, lang, sock, connected, client, connectRes, closeRes,
                 queued, wire, nPush, waiting, flowing, subCb, qState, got,
                 pushed, lost, lastOp>>

ServerPush ==
  /\ nPush < MaxPush
  /\ \E k \in srvSubs : Emit(Push(k, nPush + 1))
  /\ nPush' = nPush + 1
  /\ UNCHANGED <<codecVars, queryVars, pushVars, forwardVars, lang, sock, connected, client, connectRes, closeRes,
                 queued, wire, srvNext, srvSubs, waiting, flowing, subCb, qState,
                 got, pushed, lost, lastOp>>

\* SpecConn: the life of the connection, from the constructed client on.
\* No server is modelled here: nothing arrives.
ConnNext ==
  \/ JsConnect
  \/ JsOnConnect
  \/ JsOnConnectError
  \/ JsClose
  \/ JsOnEnd
  \/ GoDial
  \/ GoClose
  \/ WriteData
  \/ Subscribe
  \/ Unsubscribe
  \/ JsReadData
  \/ GoReadDataSend
  \/ GoReadDataError

SpecConn == Init /\ [][ConnNext]_vars

\* SpecRouter: the traffic on an established connection.  It starts from the
\* state a successful connect leaves.
RouterInit ==
  /\ cLine = <<>>
  /\ cOp = "none"
  /\ cOut = NoResult
  /\ lang \in {"go", "js"}
  /\ client = "made"
  /\ sock = "open"
  /\ connected = (lang = "js")
  /\ connectRes = "ok"
  /\ closeRes = NoClose
  /\ queued = <<>>
  /\ wire = <<>>
  /\ srvNext = 0
  /\ srvSubs = {}
  /\ nPush = 0
  /\ inbound = <<>>
  /\ waiting = <<>>
  /\ flowing = FALSE
  /\ subCb = 0
  /\ qState = [q \in Queries |-> "idle"]
  /\ got = [q \in Queries |-> <<>>]
  /\ pushed = <<>>
  /\ lost = <<>>
  /\ lastOp = NoOp
  /\ QueryIdle
  /\ PushIdle
  /\ ForwardIdle

RouterNext ==
  \/ WriteData
  \/ Subscribe
  \/ Unsubscribe
  \/ JsReadData
  \/ GoReadDataSend
  \/ GoReadDataReceive
  \/ JsOnSubscriptionData
  \/ JsOnData
  \/ ServerProcess
  \/ ServerPush

SpecRouter == RouterInit /\ [][RouterNext]_vars

(***************************************************************************)
(* The claims about the router (SpecRouter).                               *)
(***************************************************************************)
\* The request of q is on the stream and q has not been given a response.
InFlight(q) ==
  /\ qState[q] = "sent"
  /\ \E i \in 1..Len(wire) : wire[i].kind = "query" /\ wire[i].q = q

\* C1: at most one query is in flight at any time: no query sends its
\* request while an earlier query's request is sent and its response is not
\* yet consumed.
C1_AtMostOneInFlight == Cardinality({q \in Queries : InFlight(q)}) <= 1

\* C2: receiving a query response and push delivery are mutually exclusive:
\* an inbound chunk that goes to a waiting query caller is not passed to a
\* subscription callback, and the other way round.
C2_OneDestination ==
  \A q \in Queries : \A i \in 1..Len(got[q]) : \A j \in 1..Len(pushed) :
    got[q][i] # pushed[j]

\* C3: a query issued while a push notification for another key is pending
\* delivery does not consume that push line as its own response: what a
\* query returns is never a push line.
C3_QueryNeverGetsPush ==
  \A q \in Queries :
    qState[q] = "done" => \A i \in 1..Len(got[q]) : got[q][i].kind # "push"

(***************************************************************************)
(* The claims about the connection (SpecConn).                             *)
(***************************************************************************)
\* C4: while the connection state is not Connected, no write, query,
\* subscribe or unsubscribe succeeds (each fails, with NotConnectedError),
\* and none puts bytes on the stream.  The drivers have no error of that
\* name: any failure is taken for it here.
C4_NoIoWhileNotConnected ==
  /\ (lastOp.op # "none" /\ lastOp.pre # "Connected") => lastOp.res # "ok"
  /\ \A i \in 1..Len(wire) : wire[i].pre = "Connected"

\* C5: close on a client whose connection is closed already reports no
\* error and leaves the state Disconnected.
C5_CloseIdempotent ==
  closeRes.pre = "ended" =>
    /\ closeRes.res # "error"
    /\ closeRes.res = "ok" => ConnState = "Disconnected"

\* C6: connect moves the client to Connected only after the transport has
\* confirmed establishment; when the transport reports an error during
\* connect, the error is surfaced as a connection error, the state remains
\* Disconnected and no usable client is handed out.
C6_ConnectedOnlyWhenEstablished ==
  /\ connected => sock \in {"open", "ended"}
  /\ (lang = "go" /\ client = "made") => sock \in {"open", "ended"}
  /\ ConnState = "Connected" => connectRes = "ok"
  /\ sock = "refused" <=> connectRes = "ConnectionError"
  /\ connectRes = "ConnectionError" =>
       /\ ConnState = "Disconnected"
       /\ lang = "go" => client = "nil"

\* A connect that the transport refused has happened.
C6_Witness == connectRes = "ConnectionError" /\ sock = "refused"

(***************************************************************************)
(* SpecQuery: the lines the facade operations write.  The clock and the    *)
(* argument of the call are drawn at the start; one operation is called    *)
(* and the text it writes is kept in tLine.                                *)
(***************************************************************************)
DigitChar(d) ==
  CASE d = 0 -> "0" [] d = 1 -> "1" [] d = 2 -> "2" [] d = 3 -> "3"
    [] d = 4 -> "4" [] d = 5 -> "5" [] d = 6 -> "6" [] d = 7 -> "7"
    [] d = 8 -> "8" [] d = 9 -> "9"

RECURSIVE FormatNat(_)
FormatNat(n) ==
  IF n < 10 THEN <<DigitChar(n)>> ELSE FormatNat(n \div 10) \o <<DigitChar(n % 10)>>

\* %d of fmt, and a whole number inside a template literal: decimal digits,
\* "-" in front of a negative number.
FormatInt(n) == IF n < 0 THEN <<"-">> \o FormatNat(-n) ELSE FormatNat(n)

\* %.2f of fmt on a value given in thousandths: rounded to hundredths, two
\* decimals always written.  (No value of this model lies half way between
\* two hundredths unless it is a hundredth itself.)
FormatFixed2(v) ==
  LET a == IF v < 0 THEN -v ELSE v
      h == (a + 5) \div 10
      frac == h % 100
  IN (IF v < 0 THEN <<"-">> ELSE <<>>)
       \o FormatNat(h \div 100) \o <<".", DigitChar(frac \div 10), DigitChar(frac % 10)>>

\* The conversion of a float to an integer in Go: the fraction is dropped,
\* towards zero.
TruncDiv(a, b) == IF a >= 0 THEN a \div b ELSE -((-a) \div b)

\* Math.floor(a / b)
FloorDiv(a, b) == a \div b

Max(a, b) == IF a >= b THEN a ELSE b

SensorID == <<"s">>

\* The look-back of getLatestMeasurement, seconds.
LookBack == 3600

\* Go ReadData: fmt.Fprintf(c.conn, "%s,%d,%d,%d\n", key, start, end, downsampling)
GoReadDataLine(key, startTime, endTime, downsampling) ==
  key \o <<",">> \o FormatInt(startTime) \o <<",">> \o FormatInt(endTime)
      \o <<",">> \o FormatInt(downsampling) \o <<"\n">>

\* JavaScript readData: `${key},${startTime},${endTime},${downsampling}\n`
JsReadDataLine(key, startTime, endTime, downsampling) ==
  key \o <<",">> \o FormatInt(startTime) \o <<",">> \o FormatInt(endTime)
      \o <<",">> \o FormatInt(downsampling) \o <<"\n">>

\* Go WriteData: fmt.Fprintf(c.conn, "%s,%d,%.2f\n", key, timestamp, value),
\* the value in thousandths.
GoWriteDataLine(key, timestamp, value) ==
  key \o <<",">> \o FormatInt(timestamp) \o <<",">> \o FormatFixed2(value) \o <<"\n">>

\* The clock at the call.
Nows == {0, 7, 3600, 5000}

\* The argument of the call: an interval or a duration in milliseconds, a
\* value in thousandths.
Args == {-60000, -1500, -1000, -1, 0, 1, 999, 1000, 1234, 1500, 2000, 60000}

QueryInit ==
  /\ tNow \in Nows
  /\ tArg \in Args
  /\ tOp = "none"
  /\ tLine = <<>>
  /\ cLine = <<>>
  /\ cOp = "none"
  /\ cOut = NoResult
  /\ ConnIdle
  /\ PushIdle
  /\ ForwardIdle

\* The operation op is called and writes line.
Wrote(op, line) ==
  /\ tOp = "none"
  /\ tOp' = op
  /\ tLine' = line
  /\ UNCHANGED <<tNow, tArg, codecVars, connVars, pushVars, forwardVars>>

\* Go GetLatestMeasurement up to the write of ReadData.
GoGetLatestMeasurementQuery ==
  LET endTime == tNow
      startTime == endTime - LookBack
  IN Wrote("GoLatest", GoReadDataLine(SensorID, startTime, endTime, 0))

\* JavaScript getLatestMeasurement up to the write of readData.
JsGetLatestMeasurementQuery ==
  LET endTime == tNow
      startTime == endTime - LookBack
  IN Wrote("JsLatest", JsReadDataLine(SensorID, startTime, endTime, 0))

\* Go GetAverageMeasurement(sensorID, duration), the duration tArg in
\* milliseconds: int64(duration.Seconds()).
GoGetAverageMeasurementQuery ==
  LET endTime == tNow
      startTime == endTime - TruncDiv(tArg, 1000)
  IN Wrote("GoAverage", GoReadDataLine(SensorID, startTime, endTime, 0))

\* A getAverageMeasurement that takes the milliseconds for seconds.
JsGetAverageMeasurementMillis ==
  LET endTime == tNow
      startTime == endTime - tArg
  IN Wrote("JsAverage", JsReadDataLine(SensorID, startTime, endTime, 0))

\* JavaScript getAverageMeasurement(sensorID, durationMs).
JsGetAverageMeasurementQuery ==
  LET endTime == tNow
      startTime == endTime - FloorDiv(tArg, 1000)
  IN Wrote("JsAverage", JsReadDataLine(SensorID, startTime, endTime, 0))

\* A GetMeasurementHistory that sends the interval as it comes.
GoGetMeasurementHistoryUnclamped ==
  Wrote("GoHistory", GoReadDataLine(SensorID, 0, tNow, TruncDiv(tArg, 1000)))

\* Go GetMeasurementHistory(sensorID, startTime, endTime, interval) up to the
\* write of ReadData; the range is from the epoch to the clock, the interval
\* is tArg in milliseconds.
GoGetMeasurementHistoryQuery ==
  LET downsamplingSeconds == TruncDiv(tArg, 1000)
      clamped == IF downsamplingSeconds < 1 THEN 1 ELSE downsamplingSeconds
  IN Wrote("GoHistory", GoReadDataLine(SensorID, 0, tNow, clamped))

\* JavaScript getMeasurementHistory(sensorID, startTime, endTime, intervalMs).
JsGetMeasurementHistoryQuery ==
  LET downsamplingSeconds == Max(1, FloorDiv(tArg, 1000))
  IN Wrote("JsHistory", JsReadDataLine(SensorID, 0, tNow, downsamplingSeconds))

\* Go RecordMeasurement(sensorID, value): WriteData with the clock as the
\* timestamp; the value is tArg in thousandths.
GoRecordMeasurementLine ==
  Wrote("GoRecord", GoWriteDataLine(SensorID, tNow, tArg))

QueryNext ==
  \/ GoGetLatestMeasurementQuery
  \/ JsGetLatestMeasurementQuery
  \/ GoGetAverageMeasurementQuery
  \/ JsGetAverageMeasurementQuery
  \/ GoGetMeasurementHistoryQuery
  \/ JsGetMeasurementHistoryQuery
  \/ GoRecordMeasurementLine

SpecQuery == QueryInit /\ [][QueryNext]_vars

(***************************************************************************)
(* What the server reads in a query line: key,start,end,downsampling.      *)
(***************************************************************************)
\* A whole number in decimal, with or without a sign.
IsInt(s) == IF s # <<>> /\ s[1] = "-" THEN IsNum(Tail(s)) ELSE IsNum(s)

IntVal(s) == IF s # <<>> /\ s[1] = "-" THEN -NumVal(Tail(s)) ELSE NumVal(s)

\* The fields of a line that ends with its newline.
FieldsOf(line) == Split(SubSeq(line, 1, Len(line) - 1), ",")

IsQueryLine(line) ==
  /\ line # <<>>
  /\ line[Len(line)] = "\n"
  /\ Len(FieldsOf(line)) = 4
  /\ \A i \in 2..4 : IsInt(FieldsOf(line)[i])

QueryStart(line) == IntVal(FieldsOf(line)[2])
QueryEnd(line) == IntVal(FieldsOf(line)[3])
QueryDownsampling(line) == IntVal(FieldsOf(line)[4])

\* C11: every query line getMeasurementHistory sends carries a downsampling
\* of max(1, intervalSeconds), for every interval, zero and negative ones
\* included; it is never 0, which would ask for the raw range.
C11_HistoryDownsamplingAtLeastOne ==
  tOp \in {"GoHistory", "JsHistory"} =>
    /\ IsQueryLine(tLine)
    /\ QueryDownsampling(tLine) >= 1
    /\ QueryDownsampling(tLine) = Max(1, tArg \div 1000)

\* A history query for an interval of zero has been sent.
C11_Witness ==
  tOp \in {"GoHistory", "JsHistory"} /\ tArg = 0 /\ QueryDownsampling(tLine) = 1

(***************************************************************************)
(* The Subscription set.                                                   *)
(***************************************************************************)
\* The keys the client holds as subscribed.  The Go client has the field
\* conn, the JavaScript client host, port, socket and connected; subscribe
\* and unsubscribe write their line and assign nothing: no key is held.
LocalSubscriptions == {}

\* The set that the subscribe and unsubscribe calls made so far define.
RECURSIVE SubscribedBy(_)
SubscribedBy(lines) ==
  IF lines = <<>> THEN {}
  ELSE LET before == SubscribedBy(SubSeq(lines, 1, Len(lines) - 1))
           last == lines[Len(lines)]
       IN IF last.kind = "subscribe" THEN before \cup {last.key}
          ELSE IF last.kind = "unsubscribe" THEN before \ {last.key}
          ELSE before

\* C13: the client keeps a local Subscription set that subscribe and
\* unsubscribe, and nothing else, change: it holds the keys subscribed and
\* not unsubscribed since; subscribe(k) then unsubscribe(k) leaves it empty
\* and unsubscribe of a key that is not in it leaves it as it is.
C13_LocalSubscriptionSet == LocalSubscriptions = SubscribedBy(wire)

(***************************************************************************)
(* SpecPush: the listener that onSubscriptionData puts on the socket, fed  *)
(* with chunks of push lines.  No query is made on this connection.  The   *)
(* transport is a byte stream: a chunk holds one line, several lines, or   *)
(* ends in the middle of a line.                                           *)
(***************************************************************************)
\* The push lines a server may send: key,timestamp,value ones, and ones
\* with fewer or more fields.
PushPool ==
  { <<"a", ",", "1", ",", "5">>,            \* a,1,5
    <<"b", ",", "2", ",", "7">>,            \* b,2,7
    <<"c", ",", "3">>,                      \* c,3      two fields
    <<"d", ",", "4", ",", "6", ",", "9">> } \* d,4,6,9  four fields

\* Where a chunk may end inside a line: nowhere, or after its third byte.
Cuts == {0, 3}

\* The server sends one more push line.  Its bytes go into a new chunk or
\* follow the bytes of the chunk before; with a cut, the bytes after the
\* cut travel in a chunk of their own.
PushServerSend ==
  /\ Len(pSent) < MaxPushLines
  /\ \E line \in PushPool, merge \in BOOLEAN, cut \in Cuts :
       LET text == line \o <<"\n">>
           first == IF cut = 0 THEN text ELSE SubSeq(text, 1, cut)
           placed == IF merge /\ pIn # <<>>
                     THEN [pIn EXCEPT ![Len(pIn)] = @ \o first]
                     ELSE Append(pIn, first)
       IN /\ pSent' = Append(pSent, line)
          /\ pIn' = IF cut = 0 THEN placed
                    ELSE Append(placed, SubSeq(text, cut + 1, Len(text)))
          /\ pSplit' = (pSplit \/ cut # 0)
  /\ UNCHANGED <<pReg, pCalls, codecVars, connVars, queryVars, forwardVars>>

\* onSubscriptionData(callback): the listener is put on the socket.
JsOnSubscriptionDataCall ==
  /\ ~pReg
  /\ pReg' = TRUE
  /\ UNCHANGED <<pSent, pIn, pCalls, pSplit, codecVars, connVars, queryVars, forwardVars>>

\* The listener of onSubscriptionData on one chunk: the invocations of the
\* callback it makes.  The callback takes one argument, the data point.
JsSubscriptionListener(data) ==
  LET messages == Split(TrimSpace(data), "\n")
  IN [i \in 1..Len(messages) |->
        LET f == Split(messages[i], ",")
        IN [kind |-> "data", key |-> JsField(f, 1), ts |-> JsParse(JsField(f, 2)),
            value |-> JsParseFloat(JsField(f, 3))]]

\* A 'data' event: the socket emits them from the moment it has a listener.
JsOnPushData ==
  /\ pReg
  /\ pIn # <<>>
  /\ pCalls' = pCalls \o JsSubscriptionListener(Head(pIn))
  /\ pIn' = Tail(pIn)
  /\ UNCHANGED <<pSent, pReg, pSplit, codecVars, connVars, queryVars, forwardVars>>

PushInit ==
  /\ PushIdle
  /\ ForwardIdle
  /\ cLine = <<>>
  /\ cOp = "none"
  /\ cOut = NoResult
  /\ ConnIdle
  /\ QueryIdle

PushNext ==
  \/ PushServerSend
  \/ JsOnSubscriptionDataCall
  \/ JsOnPushData

SpecPush == PushInit /\ [][PushNext]_vars

\* How many bytes of the stream are still under way.
RECURSIVE BytesIn(_)
BytesIn(chunks) == IF chunks = <<>> THEN 0 ELSE Len(Head(chunks)) + BytesIn(Tail(chunks))

\* How many of the lines sent have arrived whole: the longest prefix of the
\* lines sent whose bytes are not under way any more.
RECURSIVE StreamBytes(_)
StreamBytes(lines) ==
  IF lines = <<>> THEN 0 ELSE Len(Head(lines)) + 1 + StreamBytes(Tail(lines))

LinesArrived ==
  LET arrived == StreamBytes(pSent) - BytesIn(pIn)
      ns == {n \in 0..Len(pSent) : StreamBytes(SubSeq(pSent, 1, n)) <= arrived}
  IN CHOOSE n \in ns : \A k \in ns : k <= n

\* The invocations of the callback are those for the first n lines sent.
CalledOncePerLine(n) ==
  /\ Len(pCalls) = n
  /\ \A i \in 1..n :
       /\ pCalls[i].key = Split(pSent[i], ",")[1]
       /\ WellFormed(pSent[i]) =>
            /\ pCalls[i].ts = <<"num", TimeOf(pSent[i])>>
            /\ pCalls[i].value = <<"num", 1000 * ValueOf(pSent[i])>>

\* C14: while no query is in flight every chunk is taken as push lines: the
\* callback has been invoked exactly once for each line that has arrived, in
\* the order of the stream, within a chunk and from chunk to chunk; no line
\* is lost and none is handed over twice.
C14_PushOncePerLineInOrder == CalledOncePerLine(LinesArrived)

\* As long as every chunk ends at the end of a line the listener does invoke
\* the callback once per line, in order.
WholeLineChunksOncePerLine == ~pSplit => CalledOncePerLine(LinesArrived)

\* C15: a push line that does not split on "," into exactly key, timestamp
\* and value is not passed over and is not handed to the callback as a data
\* point: the callback path gets a parse error for it.  (Stated where every
\* chunk ends at a line end, so that invocation i is the one for line i.)
C15_MalformedPushIsParseError ==
  ~pSplit =>
    \A i \in 1..Len(pCalls) :
      Len(Split(pSent[i], ",")) # 3 => pCalls[i].kind = "error"

(***************************************************************************)
(* SpecGo: the Go client from NewTSDBClient to Close and after, writing    *)
(* and querying, with the server at the other end.                         *)
(***************************************************************************)
GoInit == RouterInit /\ lang = "go"

GoNext ==
  \/ WriteData
  \/ GoReadDataSend
  \/ GoReadDataReceive
  \/ GoReadDataError
  \/ GoClose
  \/ ServerProcess

SpecGo == GoInit /\ [][GoNext]_vars

\* C16: recordMeasurement is a fire-and-forget write.  A call that succeeds
\* puts exactly one write line at the end of the stream, a call that fails
\* puts none (and never more than one: nothing is retried); the call reads
\* nothing: the chunks under way, the waiting queries and what queries and
\* callback have been given stay as they are.
C16_RecordIsFireAndForget ==
  [][WriteData =>
       /\ lastOp'.res = "ok" =>
            /\ Len(wire') = Len(wire) + 1
            /\ SubSeq(wire', 1, Len(wire)) = wire
            /\ wire'[Len(wire')].kind = "write"
       /\ lastOp'.res # "ok" => wire' = wire
       /\ inbound' = inbound
       /\ waiting' = waiting
       /\ qState' = qState
       /\ got' = got
       /\ pushed' = pushed
       /\ lost' = lost]_vars

\* A write has succeeded and was the last operation on the stream, while a
\* query waits and a chunk is under way.
C16_Witness ==
  /\ lastOp.op = "write"
  /\ lastOp.res = "ok"
  /\ wire[Len(wire)].kind = "write"
  /\ inbound # <<>>
  /\ waiting # <<>>

(***************************************************************************)
(* Write and read back.                                                    *)
(***************************************************************************)
\* The server keeps the data point of a write line and answers a query that
\* covers it with the record key,timestamp,value as it was written.
StoredRecord(line) == SubSeq(line, 1, Len(line) - 1)

\* C17: encoding and decoding are inverse: the line written for (key,
\* timestamp, value), read back as a response of one record, decodes to the
\* same key, timestamp and value; the value is not altered, not rounded.
C17_WriteReadRoundTrip ==
  tOp = "GoRecord" =>
    LET rec == StoredRecord(tLine)
        read == GoHistory(GoReadDataDecode(EncodeResponse(<<rec>>)))
    IN /\ Split(rec, ",")[1] = SensorID
       /\ read.history = <<[ts |-> <<"num", tNow>>, value |-> <<"num", tArg>>]>>

\* Values with at most two decimals do come back as they were written.
TwoDecimalsRoundTrip ==
  (tOp = "GoRecord" /\ tArg % 10 = 0) =>
    LET read == GoHistory(GoReadDataDecode(EncodeResponse(<<StoredRecord(tLine)>>)))
    IN read.history = <<[ts |-> <<"num", tNow>>, value |-> <<"num", tArg>>]>>

(***************************************************************************)
(* SpecRouterFair: SpecRouter where the client does not stall: a blocked   *)
(* read of the Go client returns when a chunk is there, the JavaScript     *)
(* runtime emits the 'data' event of a chunk that is there.  Nothing is    *)
(* assumed of the server.                                                  *)
(***************************************************************************)
SpecRouterFair ==
  /\ RouterInit
  /\ [][RouterNext]_vars
  /\ WF_vars(GoReadDataReceive)
  /\ WF_vars(JsOnData)

\* C18: every query eventually returns to its caller, with the response,
\* with a connection error, or with TimeoutError when no response arrives
\* within the read timeout; no query stays suspended for ever.
C18_QueryEventuallyReturns ==
  \A q \in Queries : (qState[q] = "sent") ~> (qState[q] \in {"done", "failed"})

(***************************************************************************)
(* The time windows of the queries.                                        *)
(***************************************************************************)
\* C19: getLatestMeasurement queries the window that ends at the clock and
\* starts 3600 seconds before, with downsampling 0; getAverageMeasurement
\* for a duration queries the window that ends at the clock and starts the
\* duration's seconds before, with downsampling 0.  (The duration is given
\* in milliseconds here; of a duration that is not a whole number of
\* seconds the whole seconds count.)
C19_LatestAndAverageWindow ==
  /\ tOp \in {"GoLatest", "JsLatest"} =>
       /\ IsQueryLine(tLine)
       /\ QueryEnd(tLine) = tNow
       /\ QueryStart(tLine) = tNow - 3600
       /\ QueryDownsampling(tLine) = 0
  /\ tOp \in {"GoAverage", "JsAverage"} =>
       /\ IsQueryLine(tLine)
       /\ QueryEnd(tLine) = tNow
       /\ (tArg >= 0 \/ tArg % 1000 = 0) => QueryStart(tLine) = tNow - (tArg \div 1000)
       /\ QueryDownsampling(tLine) = 0

\* The average over one minute has been asked for.
C19_Witness ==
  /\ tOp \in {"GoAverage", "JsAverage"}
  /\ tArg = 60000
  /\ QueryStart(tLine) = tNow - 60

(***************************************************************************)
(* Reading the stream line by line.                                        *)
(***************************************************************************)
\* C20: successive ReadData calls consume what the server sends line by
\* line and lose nothing, however the transport groups the lines into
\* chunks: every call that returns has been given exactly one line, the
\* next one of the stream, and no line is read off the connection and given
\* to nobody.
C20_ReadDataConsumesLineByLine ==
  /\ lost = <<>>
  /\ \A q \in Queries : qState[q] = "done" => Len(got[q]) = 1

(***************************************************************************)
(* Each query and its own response.                                        *)
(***************************************************************************)
\* C21: with no subscription made, every query is resolved from the
\* response to its own request, also when a query is started before an
\* earlier one has returned: no query is given the response to the request
\* of another query, and no response line is given to two queries.
C21_OwnResponseOnly ==
  CountKind(wire, "subscribe") = 0 =>
    /\ \A q \in Queries : \A i \in 1..Len(got[q]) : got[q][i].q = q
    /\ \A p, q \in Queries :
         p # q => \A i \in 1..Len(got[p]), j \in 1..Len(got[q]) : got[p][i] # got[q][j]

(***************************************************************************)
(* SpecForward: the forwarding server.  main accepts connections and       *)
(* starts one goroutine for each; the goroutine scans its connection line  *)
(* by line and calls RecordMeasurement("111", 3.33) on the one client they *)
(* all share.  Write on a net.Conn is safe for concurrent use: a goroutine *)
(* holds the connection's write lock from its first byte to its last, also *)
(* when the bytes leave in several pieces.                                 *)
(***************************************************************************)
ForwardSensor == <<"1", "1", "1">>

\* 3.33, in thousandths.
ForwardValue == 3330

\* How many bytes the kernel may take of a Write at first: all of them (0),
\* or the first six.
WriteCuts == {0, 6}

\* listener.Accept() and the go statement: the next connection is accepted,
\* its client will send some lines and close.
ForwardAccept(c) ==
  /\ fPc[c] = "none"
  /\ \A b \in 1..(c - 1) : fPc[b] # "none"
  /\ \E n \in 0..MaxLines : fIn' = [fIn EXCEPT ![c] = n]
  /\ fPc' = [fPc EXCEPT ![c] = "scan"]
  /\ UNCHANGED <<fBuf, fLock, fWire, fScanned, fNow, codecVars, connVars, queryVars, pushVars>>

\* scanner.Scan(): the next input line, or the end of the input, after
\* which the goroutine returns and the connection is closed.
ForwardScan(c) ==
  /\ fPc[c] = "scan"
  /\ IF fIn[c] > 0
     THEN /\ fIn' = [fIn EXCEPT ![c] = @ - 1]
          /\ fScanned' = fScanned + 1
          /\ fPc' = [fPc EXCEPT ![c] = "record"]
     ELSE /\ fPc' = [fPc EXCEPT ![c] = "closed"]
          /\ UNCHANGED <<fIn, fScanned>>
  /\ UNCHANGED <<fBuf, fLock, fWire, fNow, codecVars, connVars, queryVars, pushVars>>

\* RecordMeasurement up to the Write of fmt.Fprintf: the clock is read and
\* the line is formatted into the buffer of this call.
ForwardRecord(c) ==
  /\ fPc[c] = "record"
  /\ fBuf' = [fBuf EXCEPT ![c] = GoWriteDataLine(ForwardSensor, fNow, ForwardValue)]
  /\ fPc' = [fPc EXCEPT ![c] = "write"]
  /\ UNCHANGED <<fIn, fLock, fWire, fScanned, fNow, codecVars, connVars, queryVars, pushVars>>

\* A Write that does not wait for the Write of another goroutine to end.
ConnWriteEnterUnlocked(c) ==
  /\ fPc[c] = "write"
  /\ fPc' = [fPc EXCEPT ![c] = "writing"]
  /\ UNCHANGED <<fIn, fBuf, fLock, fWire, fScanned, fNow, codecVars, connVars, queryVars, pushVars>>

\* conn.Write, entry: the goroutine takes the write lock of the connection
\* when no other goroutine is inside Write.
ConnWriteEnter(c) ==
  /\ fPc[c] = "write"
  /\ fLock = 0
  /\ fLock' = c
  /\ fPc' = [fPc EXCEPT ![c] = "writing"]
  /\ UNCHANGED <<fIn, fBuf, fWire, fScanned, fNow, codecVars, connVars, queryVars, pushVars>>

\* conn.Write, the loop: the kernel takes all the bytes left or the first
\* few of them; after the last byte the lock is released, Write, Fprintf and
\* RecordMeasurement return (main drops the error) and the loop scans on.
ConnWriteBytes(c) ==
  /\ fPc[c] = "writing"
  /\ \E cut \in WriteCuts :
       LET n == IF cut = 0 \/ cut >= Len(fBuf[c]) THEN Len(fBuf[c]) ELSE cut
           rest == SubSeq(fBuf[c], n + 1, Len(fBuf[c]))
       IN /\ fWire' = fWire \o SubSeq(fBuf[c], 1, n)
          /\ fBuf' = [fBuf EXCEPT ![c] = rest]
          /\ fPc' = [fPc EXCEPT ![c] = IF rest = <<>> THEN "scan" ELSE "writing"]
          /\ fLock' = IF rest = <<>> /\ fLock = c THEN 0 ELSE fLock
  /\ UNCHANGED <<fIn, fScanned, fNow, codecVars, connVars, queryVars, pushVars>>

\* The clock while the server runs.
ForwardNows == {7, 12}

ForwardInit ==
  /\ fPc = [c \in Conns |-> "none"]
  /\ fIn = [c \in Conns |-> 0]
  /\ fBuf = [c \in Conns |-> <<>>]
  /\ fLock = 0
  /\ fWire = <<>>
  /\ fScanned = 0
  /\ fNow \in ForwardNows
  /\ cLine = <<>>
  /\ cOp = "none"
  /\ cOut = NoResult
  /\ ConnIdle
  /\ QueryIdle
  /\ PushIdle

ForwardNext ==
  \/ \E c \in Conns : ForwardAccept(c)
  \/ \E c \in Conns : ForwardScan(c)
  \/ \E c \in Conns : ForwardRecord(c)
  \/ \E c \in Conns : ConnWriteEnter(c)
  \/ \E c \in Conns : ConnWriteBytes(c)

SpecForward == ForwardInit /\ [][ForwardNext]_vars

\* The TSDB connection as the server reads it: the pieces between the
\* newlines; the last piece is the line still being written, if any.
WireLines == Split(fWire, "\n")

\* A write line 111,timestamp,3.33
IsRecordLine(l) ==
  LET f == Split(l, ",")
  IN Len(f) = 3 /\ f[1] = ForwardSensor /\ IsInt(f[2]) /\ f[3] = <<"3", ".", "3", "3">>

\* The goroutines that have scanned a line and not yet returned from the
\* RecordMeasurement made for it.
InCall == {c \in Conns : fPc[c] \in {"record", "write", "writing"}}

====
